---- MODULE Spec2Model ----
(***************************************************************************)
(* Model of the invoices page of the client portal                         *)
(* (frontend/src/pages/Invoices.jsx): the invoice form and its memoized    *)
(* totals, the save path (handleSubmit, syncInvoiceItems), the payment     *)
(* path (submitPayment) and the list refetch (fetchInvoices), the payment  *)
(* terms and dates of the form (handleTermsChange, toIsoDate) and the rows *)
(* of the invoice table (isOverdue, hasBalance, sendInvoice).              *)
(*                                                                         *)
(* JavaScript values are tagged records: Num(n), Str(s), Undef and NaN.    *)
(* A string is a sequence of one-character strings, so that trim and       *)
(* parseFloat are computed character by character.  Numbers are integers;  *)
(* amounts that involve a percentage are kept exactly, in units of         *)
(* 1/(Percent*Percent); IEEE rounding is outside the model.                *)
(*                                                                         *)
(* A Date is the number of hours since 1970-01-01T00:00Z.  The browser's   *)
(* time zone is a whole number of hours ahead of UTC, the same all year    *)
(* (no daylight saving).  Date strings ("2024-01-31") and ISO timestamps   *)
(* ("2024-01-31T00:00:00.000Z") are strings like any other.                *)
(* Values that are only compared (a status, the payment terms) are TLA+    *)
(* strings.                                                                *)
(***************************************************************************)
EXTENDS Integers, Sequences, FiniteSets, Bags, TLC

(***************************************************************************)
(* Bounds of the model.                                                    *)
(***************************************************************************)
MaxEdits == 2
MaxCalls == 2
MaxSaveEdits == 3
MaxSaves == 1
MaxFormEdits == 2
MaxDateEdits == 3
MaxTicks == 2
MaxAuthCalls == 3

(***************************************************************************)
(* JavaScript values.                                                      *)
(***************************************************************************)
Num(n) == [t |-> "num", v |-> n]
Str(s) == [t |-> "str", v |-> s]
Undef == [t |-> "undef", v |-> 0]
NaN == [t |-> "nan", v |-> 0]

Truthy(x) ==
    CASE x.t = "num" -> x.v # 0
      [] x.t = "str" -> x.v # <<>>
      [] OTHER -> FALSE

OrElse(x, y) == IF Truthy(x) THEN x ELSE y

IsSpace(c) == c \in {" ", "\t"}

Digits == <<"0", "1", "2", "3", "4", "5", "6", "7", "8", "9">>

IsDigit(c) == \E d \in 1..Len(Digits) : Digits[d] = c

DigitVal(c) == (CHOOSE d \in 1..Len(Digits) : Digits[d] = c) - 1

RECURSIVE TrimStart(_)
TrimStart(s) ==
    IF s # <<>> /\ IsSpace(Head(s)) THEN TrimStart(Tail(s)) ELSE s

RECURSIVE TrimEnd(_)
TrimEnd(s) ==
    IF s # <<>> /\ IsSpace(s[Len(s)]) THEN TrimEnd(SubSeq(s, 1, Len(s) - 1)) ELSE s

\* String.prototype.trim
Trim(s) == TrimEnd(TrimStart(s))

RECURSIVE DigitPrefixLen(_)
DigitPrefixLen(s) ==
    IF s # <<>> /\ IsDigit(Head(s)) THEN 1 + DigitPrefixLen(Tail(s)) ELSE 0

RECURSIVE DigitsValue(_, _)
DigitsValue(s, acc) ==
    IF s = <<>> THEN acc ELSE DigitsValue(Tail(s), 10 * acc + DigitVal(Head(s)))

\* parseFloat of a string: leading white space is skipped, an optional sign
\* and the longest run of digits are read, the rest is ignored; no digit
\* gives NaN.
ParseFloatStr(s) ==
    LET body == TrimStart(s)
        neg == body # <<>> /\ Head(body) = "-"
        signed == body # <<>> /\ Head(body) \in {"-", "+"}
        rest == IF signed THEN Tail(body) ELSE body
        n == DigitPrefixLen(rest)
        mag == DigitsValue(SubSeq(rest, 1, n), 0)
    IN  IF n = 0 THEN NaN ELSE Num(IF neg THEN 0 - mag ELSE mag)

\* parseFloat(x): a number is returned as it is, a string is parsed, and
\* undefined gives NaN.
ParseFloat(x) ==
    CASE x.t = "num" -> x
      [] x.t = "str" -> ParseFloatStr(x.v)
      [] OTHER -> NaN

\* parseFloat(x) || 0, as an integer
ParseFloatOrZero(x) == OrElse(ParseFloat(x), Num(0)).v

RECURSIVE NatToString(_)
NatToString(n) ==
    IF n < 10 THEN <<Digits[n + 1]>>
    ELSE NatToString(n \div 10) \o <<Digits[(n % 10) + 1]>>

\* Number.prototype.toString of an integer
NumToString(n) == IF n < 0 THEN <<"-">> \o NatToString(0 - n) ELSE NatToString(n)

(***************************************************************************)
(* Dates.                                                                  *)
(***************************************************************************)
VARIABLES
    timeZone,          \* the browser's time zone: hours ahead of UTC
    now                \* the current time, as new Date() gives it

HoursPerDay == 24

IsLeap(y) == (y % 4 = 0 /\ y % 100 # 0) \/ y % 400 = 0

DaysInMonth(y, m) ==
    IF m = 2 THEN (IF IsLeap(y) THEN 29 ELSE 28)
    ELSE IF m \in {4, 6, 9, 11} THEN 30 ELSE 31

\* The number of leap years from year 1 to year y
LeapYearsTo(y) == (y \div 4) - (y \div 100) + (y \div 400)

\* The days from 1970-01-01 to the first day of year y
DaysBeforeYear(y) == 365 * (y - 1970) + LeapYearsTo(y - 1) - LeapYearsTo(1969)

RECURSIVE DaysBeforeMonth(_, _)
DaysBeforeMonth(y, m) ==
    IF m <= 1 THEN 0 ELSE DaysBeforeMonth(y, m - 1) + DaysInMonth(y, m - 1)

\* The day number (days since 1970-01-01) of a calendar date.
DayNumber(y, m, d) == DaysBeforeYear(y) + DaysBeforeMonth(y, m) + (d - 1)

RECURSIVE YearOfDay(_, _)
YearOfDay(n, y) == IF n < DaysBeforeYear(y + 1) THEN y ELSE YearOfDay(n, y + 1)

RECURSIVE MonthOfDay(_, _, _)
MonthOfDay(n, y, m) ==
    IF n < DaysBeforeYear(y) + DaysBeforeMonth(y, m + 1) THEN m ELSE MonthOfDay(n, y, m + 1)

\* A number in decimal, padded with zeros to a width.
RECURSIVE Pad(_, _)
Pad(n, width) ==
    IF width = 0 THEN <<>> ELSE Pad(n \div 10, width - 1) \o <<Digits[(n % 10) + 1]>>

\* "YYYY-MM-DD" of a day number
DateString(n) ==
    LET y == YearOfDay(n, 1970 + (n \div 366))
        m == MonthOfDay(n, y, 1)
        d == n - DayNumber(y, m, 1) + 1
    IN  Pad(y, 4) \o <<"-">> \o Pad(m, 2) \o <<"-">> \o Pad(d, 2)

\* Date.prototype.toISOString: the UTC date and time of a Date
toISOString(date) ==
    DateString(date \div HoursPerDay) \o <<"T">> \o Pad(date % HoursPerDay, 2)
        \o <<":", "0", "0", ":", "0", "0", ".", "0", "0", "0", "Z">>

\* The day number a string starting with "YYYY-MM-DD" names.
ParseDay(s) ==
    DayNumber(DigitsValue(SubSeq(s, 1, 4), 0), DigitsValue(SubSeq(s, 6, 7), 0),
              DigitsValue(SubSeq(s, 9, 10), 0))

ParseHour(s) == DigitsValue(SubSeq(s, 12, 13), 0)

\* new Date(s) of a date-time string: one that ends in "Z" is in UTC, one
\* without an offset is in the local time of the browser.
NewDate(s) ==
    ParseDay(s) * HoursPerDay + ParseHour(s)
        - (IF s[Len(s)] = "Z" THEN 0 ELSE timeZone)

\* new Date(`${dateValue}T00:00:00`)
NewDateAtMidnight(dateValue) == NewDate(dateValue \o <<"T", "0", "0", ":", "0", "0", ":", "0", "0">>)

\* Date.prototype.getDate + setDate: the local calendar day moves by a number
\* of days and the local time of day stays.
AddLocalDays(date, days) ==
    LET local == date + timeZone
    IN  ((local \div HoursPerDay) + days) * HoursPerDay + (local % HoursPerDay) - timeZone

\* s.slice(0, 10)
Slice10(s) == SubSeq(s, 1, 10)

\* s.split('T')[0]
RECURSIVE BeforeT(_)
BeforeT(s) == IF s = <<>> \/ Head(s) = "T" THEN <<>> ELSE <<Head(s)>> \o BeforeT(Tail(s))

toIsoDate(dateValue) ==
    IF ~Truthy(dateValue) THEN Undef ELSE Str(toISOString(NewDateAtMidnight(dateValue.v)))

PAYMENT_DAYS(terms) ==
    CASE terms = "due_on_receipt" -> 0
      [] terms = "net_7" -> 7
      [] terms = "net_15" -> 15
      [] terms = "net_30" -> 30
      [] terms = "net_60" -> 60
      [] terms = "custom" -> 30
      [] OTHER -> 30

(***************************************************************************)
(* Line items and the form.                                                *)
(***************************************************************************)
Item(id, description, quantity, unit_price) ==
    [id |-> id, description |-> description,
     quantity |-> quantity, unit_price |-> unit_price]

EMPTY_ITEM == Item(Undef, Str(<<>>), Num(1), Num(0))

getDefaultForm ==
    [issue_date |-> Str(Slice10(toISOString(now))),
     due_date |-> Str(Slice10(toISOString(AddLocalDays(now, PAYMENT_DAYS("net_30"))))),
     payment_terms |-> "net_30",
     tax_rate |-> Num(0), discount_percent |-> Num(0),
     items |-> <<EMPTY_ITEM>>, client_id |-> Str(<<>>)]

SeqMap(Op(_), s) == [i \in 1..Len(s) |-> Op(s[i])]

RECURSIVE SeqFilter(_, _)
SeqFilter(Keep(_), s) ==
    IF s = <<>> THEN <<>>
    ELSE (IF Keep(Head(s)) THEN <<Head(s)>> ELSE <<>>) \o SeqFilter(Keep, Tail(s))

\* The map callback with 1 for a quantity that is not a number
normalizeItemDefaultOne(item) ==
    [item EXCEPT
        !.description =
            OrElse(IF item.description.t = "str"
                   THEN Str(Trim(item.description.v)) ELSE Undef, Str(<<>>)),
        !.quantity = OrElse(ParseFloat(item.quantity), Num(1)),
        !.unit_price = Num(ParseFloatOrZero(item.unit_price))]

\* normalizeItem replacing a negative quantity or unit price by 0
normalizeItemClamped(item) ==
    LET AtLeastZero(n) == IF n < 0 THEN 0 ELSE n
    IN  [item EXCEPT
            !.description =
                OrElse(IF item.description.t = "str"
                       THEN Str(Trim(item.description.v)) ELSE Undef, Str(<<>>)),
            !.quantity = Num(AtLeastZero(ParseFloatOrZero(item.quantity))),
            !.unit_price = Num(AtLeastZero(ParseFloatOrZero(item.unit_price)))]

normalizeItem(item) ==
    [item EXCEPT
        !.description =
            OrElse(IF item.description.t = "str"
                   THEN Str(Trim(item.description.v)) ELSE Undef, Str(<<>>)),
        !.quantity = Num(ParseFloatOrZero(item.quantity)),
        !.unit_price = Num(ParseFloatOrZero(item.unit_price))]

HasDescription(item) == Truthy(item.description)

\* normalizeItems without its filter
normalizeItemsUnfiltered(items) == SeqMap(normalizeItem, items)

normalizeItems(items) == SeqFilter(HasDescription, SeqMap(normalizeItem, items))

Percent == 100

RECURSIVE SumLineTotals(_, _)
SumLineTotals(items, sum) ==
    IF items = <<>> THEN sum
    ELSE SumLineTotals(Tail(items),
                       sum + Head(items).quantity.v * Head(items).unit_price.v)

\* The body of the useMemo callback.  subtotal is in currency units scaled by
\* Percent*Percent, as are discount, tax and total.
calculateFormTotals(f) ==
    LET items == normalizeItems(f.items)
        subtotal == SumLineTotals(items, 0) * Percent * Percent
        discount == (subtotal * ParseFloatOrZero(f.discount_percent)) \div Percent
        taxable == subtotal - discount
        tax == (taxable * ParseFloatOrZero(f.tax_rate)) \div Percent
        total == taxable + tax
    IN  [subtotal |-> subtotal, discount |-> discount, tax |-> tax, total |-> total]

\* The dependency list of the useMemo: the memoized value is recomputed when
\* one of the dependencies differs from the previous render.
\* The dependency list without the rates
MemoDepsItemsOnly(old, new) == old.items # new.items

MemoDepsChanged(old, new) ==
    \/ old.items # new.items
    \/ old.tax_rate # new.tax_rate
    \/ old.discount_percent # new.discount_percent

\* UseMemoTotals with a callback that adds to the totals of the render before
UseMemoTotalsAccumulating(old, new, memo) ==
    IF MemoDepsChanged(old, new) THEN calculateFormTotals(new)
    ELSE [k \in DOMAIN memo |-> memo[k] + calculateFormTotals(new)[k]]

UseMemoTotals(old, new, memo) ==
    IF MemoDepsChanged(old, new) THEN calculateFormTotals(new) ELSE memo

(***************************************************************************)
(* Invoices as the API returns them, and the requests the page issues.     *)
(***************************************************************************)
Invoice(id, items, amount_due) ==
    [id |-> id, items |-> items, client_id |-> Num(9), tax_rate |-> Num(8),
     discount_percent |-> Num(10), amount_due |-> amount_due,
     issue_date |-> Undef, due_date |-> Undef, payment_terms |-> "", status |-> "sent"]

\* useState(null) of editingInvoice and paymentInvoice
NoInvoice == Invoice(0, <<>>, Undef)

ItemA == Item(Num(1), Str(<<"A">>), Num(10), Num(50))
ItemB == Item(Num(2), Str(<<"B">>), Num(1), Num(3))

\* The responses GET /invoices may give.
InvoiceLists == { <<Invoice(7, <<ItemA, ItemB>>, Num(13))>> }

\* A request: its operation, the id in its URL (0 when the URL has none) and
\* its body as a tuple of values.
Request(op, id, body) == [op |-> op, id |-> id, body |-> body]

ItemBody(item) == <<item.description, item.quantity, item.unit_price>>

InvoiceBody(f) ==
    <<toIsoDate(f.issue_date), toIsoDate(f.due_date),
      IF f.payment_terms = "" THEN "net_30" ELSE f.payment_terms,
      Num(ParseFloatOrZero(f.tax_rate)), Num(ParseFloatOrZero(f.discount_percent))>>

(***************************************************************************)
(* syncInvoiceItems: the requests it issues, in order, when none fails.    *)
(***************************************************************************)
VARIABLES
    created            \* the bodies of the item creates the server has carried out
                       \* since the invoice form was last opened (a bag)

desiredIds(items) == {items[i].id : i \in {j \in 1..Len(items) : Truthy(items[j].id)}}

NotDesired(items, item) == item.id \notin desiredIds(items)

\* itemsToDelete with the test of its filter not negated
itemsToDeleteInverted(existingItems, items) ==
    LET Wanted(item) == ~NotDesired(items, item)
    IN  SeqFilter(Wanted, existingItems)

itemsToDelete(existingItems, items) ==
    LET Stale(item) == NotDesired(items, item)
    IN  SeqFilter(Stale, existingItems)

\* UpsertRequest taking every item for a new one
UpsertRequestAlwaysCreate(item) == Request("create", 0, ItemBody(item))

UpsertRequest(item) ==
    IF Truthy(item.id)
    THEN Request("update", item.id.v, ItemBody(item))
    ELSE Request("create", 0, ItemBody(item))

DeleteRequest(item) == Request("delete", item.id.v, <<>>)

\* syncPlan with the two loops in the other order
syncPlanDeletesFirst(invoice, items) ==
    SeqMap(DeleteRequest, itemsToDelete(invoice.items, items))
        \o SeqMap(UpsertRequest, items)

\* syncPlan keeping track of earlier saves: an item the server has created
\* since the form was opened is not created again
syncPlanIncremental(invoice, items) ==
    LET Fresh(r) == ~(r.op = "create" /\ BagIn(r.body, created))
    IN  SelectSeq(SeqMap(UpsertRequest, items), Fresh)
            \o SeqMap(DeleteRequest, itemsToDelete(invoice.items, items))

syncPlan(invoice, items) ==
    SeqMap(UpsertRequest, items)
        \o SeqMap(DeleteRequest, itemsToDelete(invoice.items, items))

\* The requests sent on reaching position k of the plan: each request is
\* awaited before the loop goes on, so one request.
\* IssueFrom without the await: the loop sends all that is left of the plan
IssueFromUnawaited(plan, k) == SubSeq(plan, k, Len(plan))

IssueFrom(plan, k) == <<plan[k]>>

(***************************************************************************)
(* State of the page.                                                      *)
(***************************************************************************)
VARIABLES
    invoices,          \* useState([]): the list shown
    loading,           \* useState(true)
    fetches,           \* GET /invoices requests not yet answered
    showModal,         \* useState(false)
    editingInvoice,    \* useState(null)
    form,              \* useState(getDefaultForm())
    totals,            \* the memoized calculateFormTotals
    showPaymentModal,  \* useState(false)
    paymentInvoice,    \* useState(null)
    paymentForm,       \* useState({amount: '', ...})
    calls,             \* the running invocations of handleSubmit and submitPayment
    started,           \* how many invocations have been started
    net,               \* the requests of those invocations not yet answered
    console,           \* the messages console.error has logged
    latest,            \* the most recently started GET /invoices: whether it is
                       \* outstanding, and its answer
    auth,              \* the auth context: the stored token, user, loading and
                       \* the auth requests not yet answered
    edits              \* the number of edits the user has made to the forms

vars == <<timeZone, now, invoices, loading, fetches, showModal, editingInvoice,
          form, totals, showPaymentModal, paymentInvoice, paymentForm, calls,
          started, net, console, created, latest, auth, edits>>

\* What the page renders from: the React state.
uiState == <<invoices, loading, showModal, editingInvoice, form,
             showPaymentModal, paymentInvoice, paymentForm>>

EmptyPaymentForm == [amount |-> Str(<<>>), payment_date |-> Str(<<>>)]

\* A GET /invoices that has been started and not yet answered.
FetchStarted == [pending |-> TRUE, ok |-> FALSE, data |-> <<>>]

\* The useState initial values, and no request sent yet.
UseStateValues ==
    /\ invoices = <<>>
    /\ loading = TRUE
    /\ showModal = FALSE
    /\ editingInvoice = NoInvoice
    /\ form = getDefaultForm
    /\ totals = calculateFormTotals(getDefaultForm)
    /\ showPaymentModal = FALSE
    /\ paymentInvoice = NoInvoice
    /\ paymentForm = EmptyPaymentForm
    /\ calls = <<>>
    /\ started = 0
    /\ net = {}
    /\ console = {}
    /\ created = EmptyBag
    /\ edits = 0

\* The component as it is mounted: the useState initial values and the
\* GET /invoices of the mount effect.
Mounted == UseStateValues /\ fetches = 1 /\ latest = FetchStarted

\* Noon (UTC) of 2024-01-10
Noon == DayNumber(2024, 1, 10) * HoursPerDay + 12

\* The auth context of a user who is signed in.
SignedIn ==
    [token |-> "ann", user |-> "ann", loading |-> FALSE, requests |-> {},
     isLogin |-> TRUE, submitting |-> FALSE, error |-> FALSE, attempts |-> 0]

\* The page is opened in a browser in UTC, by a user who is signed in.
Init == timeZone = 0 /\ now = Noon /\ auth = SignedIn /\ Mounted

\* The page is opened in a browser in any of several time zones, at noon or
\* late in the evening (UTC).
TimeZones == {0 - 5, 0, 2}
Clock == {Noon, Noon + 11}

InitZones == timeZone \in TimeZones /\ now \in Clock /\ auth = SignedIn /\ Mounted

envVars == <<timeZone, now, auth>>
pageVars == <<invoices, loading, fetches, latest>>
modalVars == <<showModal, editingInvoice>>
paymentVars == <<showPaymentModal, paymentInvoice, paymentForm>>
callVars == <<calls, started, net, console, created>>

(***************************************************************************)
(* fetchInvoices: the answer to one outstanding GET /invoices.             *)
(***************************************************************************)
\* The GET /invoices answered next is the most recently started one, or, when
\* more are outstanding, an older one: the answers come in any order.
AnswerTo(isLatest, ok, data) ==
    /\ IF isLatest THEN latest.pending ELSE fetches > (IF latest.pending THEN 1 ELSE 0)
    /\ latest' = IF isLatest THEN [pending |-> FALSE, ok |-> ok, data |-> data] ELSE latest

FetchInvoicesOk(data) ==
    /\ fetches > 0
    /\ fetches' = fetches - 1
    /\ \E isLatest \in BOOLEAN : AnswerTo(isLatest, TRUE, data)
    /\ invoices' = data
    /\ loading' = FALSE
    /\ UNCHANGED <<envVars, modalVars, form, totals, paymentVars, callVars, edits>>

FetchInvoicesFail ==
    /\ fetches > 0
    /\ fetches' = fetches - 1
    /\ \E isLatest \in BOOLEAN : AnswerTo(isLatest, FALSE, <<>>)
    /\ console' = console \cup {"Failed to fetch invoices:"}
    /\ loading' = FALSE
    /\ UNCHANGED <<envVars, invoices, modalVars, form, totals, paymentVars, calls, started, created,
                   net, edits>>

InvoiceSet == {invoices[i] : i \in 1..Len(invoices)}

(***************************************************************************)
(* The invoice modal.                                                      *)
(***************************************************************************)
DatePart(value) ==
    OrElse(IF value.t = "str" THEN Str(BeforeT(value.v)) ELSE Undef, Str(<<>>))

handleEditForm(invoice) ==
    [issue_date |-> DatePart(invoice.issue_date),
     due_date |-> DatePart(invoice.due_date),
     payment_terms |-> IF invoice.payment_terms = "" THEN "net_30" ELSE invoice.payment_terms,
     tax_rate |-> OrElse(invoice.tax_rate, Num(0)),
     discount_percent |-> OrElse(invoice.discount_percent, Num(0)),
     items |-> IF Len(invoice.items) > 0
               THEN [i \in 1..Len(invoice.items) |->
                        Item(invoice.items[i].id, invoice.items[i].description,
                             invoice.items[i].quantity, invoice.items[i].unit_price)]
               ELSE <<EMPTY_ITEM>>,
     client_id |-> Str(NumToString(invoice.client_id.v))]

handleEdit(invoice) ==
    /\ ~loading
    /\ invoice \in InvoiceSet
    /\ editingInvoice' = invoice
    /\ form' = handleEditForm(invoice)
    /\ totals' = UseMemoTotals(form, form', totals)
    /\ showModal' = TRUE
    /\ created' = EmptyBag
    /\ UNCHANGED edits
    /\ UNCHANGED <<envVars, pageVars, paymentVars, calls, started, net, console>>

openNewModal ==
    /\ ~loading
    /\ editingInvoice' = NoInvoice
    /\ form' = getDefaultForm
    /\ totals' = UseMemoTotals(form, form', totals)
    /\ showModal' = TRUE
    /\ created' = EmptyBag
    /\ UNCHANGED edits
    /\ UNCHANGED <<envVars, pageVars, paymentVars, calls, started, net, console>>

closeModal ==
    /\ showModal
    /\ showModal' = FALSE
    /\ UNCHANGED <<envVars, pageVars, editingInvoice, form, totals, paymentVars, callVars, edits>>

\* setForm(next) from an input of the open modal
setForm(next) ==
    /\ showModal
    /\ form' = next
    /\ totals' = UseMemoTotals(form, form', totals)
    /\ UNCHANGED <<envVars, pageVars, modalVars, paymentVars, callVars>>

ItemIndexes == 1..Len(form.items)

setClient(value) == setForm([form EXCEPT !.client_id = value])
setTaxRate(value) == setForm([form EXCEPT !.tax_rate = value])
setDiscountPercent(value) == setForm([form EXCEPT !.discount_percent = value])
setItemDescription(i, value) == setForm([form EXCEPT !.items[i].description = value])
setItemQuantity(i, value) == setForm([form EXCEPT !.items[i].quantity = value])
setItemUnitPrice(i, value) == setForm([form EXCEPT !.items[i].unit_price = value])

setIssueDate(value) == setForm([form EXCEPT !.issue_date = value])
setDueDate(value) == setForm([form EXCEPT !.due_date = value])

\* handleTermsChange that computes a due date for custom terms as well
handleTermsChangeRecomputing(value) ==
    /\ value # form.payment_terms
    /\ IF ~Truthy(form.issue_date)
       THEN setForm([form EXCEPT !.payment_terms = value])
       ELSE LET nextIssue == NewDateAtMidnight(form.issue_date.v)
                days == PAYMENT_DAYS(value)
                due == AddLocalDays(nextIssue, days)
            IN  setForm([form EXCEPT
                           !.payment_terms = value,
                           !.due_date = Str(Slice10(toISOString(due)))])

\* handleTermsChange that counts from today when there is no issue date
handleTermsChangeFromToday(value) ==
    /\ value # form.payment_terms
    /\ LET nextIssue == IF ~Truthy(form.issue_date) THEN now
                        ELSE NewDateAtMidnight(form.issue_date.v)
           days == PAYMENT_DAYS(value)
           due == AddLocalDays(nextIssue, days)
       IN  setForm([form EXCEPT
                      !.payment_terms = value,
                      !.due_date = IF value = "custom" THEN form.due_date
                                   ELSE Str(Slice10(toISOString(due)))])

\* The change event of the terms select: another option was chosen.
handleTermsChange(value) ==
    /\ value # form.payment_terms
    /\ IF ~Truthy(form.issue_date)
       THEN setForm([form EXCEPT !.payment_terms = value])
       ELSE LET nextIssue == NewDateAtMidnight(form.issue_date.v)
                days == PAYMENT_DAYS(value)
                due == AddLocalDays(nextIssue, days)
            IN  setForm([form EXCEPT
                           !.payment_terms = value,
                           !.due_date = IF value = "custom" THEN form.due_date
                                        ELSE Str(Slice10(toISOString(due)))])

addItem == setForm([form EXCEPT !.items = Append(form.items, EMPTY_ITEM)])

removeItem(index) ==
    LET nextItems == [j \in 1..(Len(form.items) - 1) |->
                        IF j < index THEN form.items[j] ELSE form.items[j + 1]]
    IN  setForm([form EXCEPT !.items =
                    IF Len(nextItems) > 0 THEN nextItems ELSE <<EMPTY_ITEM>>])

(***************************************************************************)
(* Submitting the invoice form.                                            *)
(***************************************************************************)
\* The browser's constraint validation, which runs before the submit event:
\* the client select is required, the due date is required when the terms are
\* custom, and the number inputs have min="0" (an empty or unparsable number
\* input is valid, as none is required).
NumberInputValid(x) == ParseFloat(x) = NaN \/ ParseFloat(x).v >= 0

FormValid(f) ==
    /\ Truthy(f.client_id)
    /\ (f.payment_terms = "custom" => Truthy(f.due_date))
    /\ NumberInputValid(f.tax_rate)
    /\ NumberInputValid(f.discount_percent)
    /\ \A i \in 1..Len(f.items) :
        NumberInputValid(f.items[i].quantity) /\ NumberInputValid(f.items[i].unit_price)

\* parseInt agrees with parseFloat on the strings of digits a select holds.
parseInt(x) == ParseFloat(x)

\* A running invocation of a handler: what its closure holds (the invoice, the
\* form items of the render it was started from, the normalized items), where
\* it is (pc, and k requests of the item plan sent) and the requests it has
\* sent so far.
Call(kind, invoice, buffer, items, first) ==
    [kind |-> kind, pc |-> "invoice", invoice |-> invoice, buffer |-> buffer,
     items |-> items, k |-> 0, sent |-> <<first>>]

InFlight(c, n, req) == [call |-> c, n |-> n, req |-> req]

Running == DOMAIN calls

Start(call) ==
    /\ started' = started + 1
    /\ calls' = [c \in Running \cup {started + 1} |->
                    IF c \in Running THEN calls[c] ELSE call]
    /\ net' = net \cup {InFlight(started + 1, 0, call.sent[1])}

\* The handler returns: its promise is fulfilled, on the success path and in
\* the catch block alike.
Return(c) == calls' = [d \in Running \ {c} |-> calls[d]]

\* handleSubmit up to its first await: the data is built from the form of the
\* current render and the invoice request is sent.
handleSubmit ==
    /\ showModal
    /\ FormValid(form)
    /\ LET items == normalizeItems(form.items)
           first == IF editingInvoice # NoInvoice
                    THEN Request("update_invoice", editingInvoice.id, InvoiceBody(form))
                    ELSE Request("create_invoice", 0,
                                 InvoiceBody(form) \o <<parseInt(form.client_id), items>>)
           kind == IF editingInvoice # NoInvoice THEN "edit" ELSE "create"
       IN  Start(Call(kind, editingInvoice, form.items, items, first))
    /\ UNCHANGED <<envVars, pageVars, modalVars, form, totals, paymentVars, console, created,
                   edits>>

\* Lines 180-183: the save succeeded.
SaveSucceeded(c) ==
    /\ Return(c)
    /\ showModal' = FALSE
    /\ editingInvoice' = NoInvoice
    /\ form' = getDefaultForm
    /\ totals' = UseMemoTotals(form, form', totals)
    /\ fetches' = fetches + 1
    /\ latest' = FetchStarted
    /\ UNCHANGED <<envVars, invoices, loading, paymentVars, started, console, edits>>

\* Lines 274-277: the payment succeeded.
PaymentSucceeded(c) ==
    /\ Return(c)
    /\ showPaymentModal' = FALSE
    /\ paymentInvoice' = NoInvoice
    /\ paymentForm' = EmptyPaymentForm
    /\ fetches' = fetches + 1
    /\ latest' = FetchStarted
    /\ UNCHANGED <<envVars, invoices, loading, modalVars, form, totals, started, console, edits>>

\* Line 295: the invoice was sent.
SendSucceeded(c) ==
    /\ Return(c)
    /\ fetches' = fetches + 1
    /\ latest' = FetchStarted
    /\ UNCHANGED <<envVars, invoices, loading, modalVars, form, totals, paymentVars,
                   started, console, edits>>

\* Caught with a catch block that gives the form up
CaughtClosingModal(c) ==
    /\ Return(c)
    /\ console' = console \cup {"Failed to save invoice:"}
    /\ showModal' = FALSE
    /\ editingInvoice' = NoInvoice
    /\ UNCHANGED <<envVars, pageVars, form, totals, paymentVars, started, edits>>

\* The catch blocks of handleSubmit, submitPayment and sendInvoice: the error
\* is logged and nothing else is done.
Caught(c) ==
    /\ Return(c)
    /\ console' = console \cup {CASE calls[c].kind = "payment" -> "Failed to record payment:"
                                   [] calls[c].kind = "send" -> "Failed to send invoice:"
                                   [] OTHER -> "Failed to save invoice:"}
    /\ UNCHANGED <<envVars, pageVars, modalVars, form, totals, paymentVars, started, edits>>

\* syncInvoiceItems goes on from position k of its plan: the next requests are
\* sent, or the plan is finished and handleSubmit goes on to its last lines.
SyncFrom(c, k, rest) ==
    LET plan == syncPlan(calls[c].invoice, calls[c].items)
    IN  IF k >= Len(plan)
        THEN /\ net' = rest
             /\ SaveSucceeded(c)
        ELSE LET batch == IssueFrom(plan, k + 1)
             IN  /\ calls' = [calls EXCEPT ![c].pc = "items",
                                           ![c].k = k + Len(batch),
                                           ![c].sent = calls[c].sent \o batch]
                 /\ net' = rest \cup {InFlight(c, k + j, batch[j]) : j \in 1..Len(batch)}
                 /\ UNCHANGED <<envVars, pageVars, modalVars, form, totals, paymentVars,
                                started, console, edits>>

\* The server carries out a request it answers with success.
Served(m, ok) ==
    IF ok /\ m.req.op = "create" THEN created (+) SetToBag({m.req.body}) ELSE created

\* Respond with a handler that takes no notice of a failed request: the
\* rejection is swallowed and the handler goes on as after a success
RespondCarryingOn(m, ok) ==
    /\ m \in net
    /\ created' = Served(m, ok)
    /\ LET c == m.call
           rest == net \ {m}
       IN  CASE c \notin Running ->
                    /\ net' = rest
                    /\ UNCHANGED <<envVars, pageVars, modalVars, form, totals, paymentVars,
                                   calls, started, console, edits>>
             [] calls[c].kind = "payment" -> net' = rest /\ PaymentSucceeded(c)
             [] calls[c].kind = "create" -> net' = rest /\ SaveSucceeded(c)
             [] calls[c].kind = "send" -> net' = rest /\ SendSucceeded(c)
             [] OTHER -> SyncFrom(c, calls[c].k, rest)

\* The answer to a request of call c, and what the handler does next.  (An
\* answer to a request of a handler that has returned has no one waiting.)
Respond(m, ok) ==
    /\ m \in net
    /\ created' = Served(m, ok)
    /\ LET c == m.call
           rest == net \ {m}
       IN  CASE c \notin Running ->
                    /\ net' = rest
                    /\ UNCHANGED <<envVars, pageVars, modalVars, form, totals, paymentVars,
                                   calls, started, console, edits>>
             [] ~ok -> net' = rest /\ Caught(c)
             [] calls[c].kind = "payment" -> net' = rest /\ PaymentSucceeded(c)
             [] calls[c].kind = "create" -> net' = rest /\ SaveSucceeded(c)
             [] calls[c].kind = "send" -> net' = rest /\ SendSucceeded(c)
             [] OTHER -> SyncFrom(c, calls[c].k, rest)

RespondOk(m) == Respond(m, TRUE)
RespondError(m) == Respond(m, FALSE)

(***************************************************************************)
(* The rows of the invoice table and the summary above it.                 *)
(***************************************************************************)
\* The row's overdue flag without the test of the stored status
isOverdueWhateverStatus(invoice) ==
    /\ Truthy(invoice.due_date)
    /\ NewDate(invoice.due_date.v) < now

isOverdue(invoice) ==
    /\ Truthy(invoice.due_date)
    /\ NewDate(invoice.due_date.v) < now
    /\ invoice.status # "paid"
    /\ invoice.status # "cancelled"

\* The filter of totals.overdue
totalsOverdueFilter(invoice) == invoice.status = "overdue"

RECURSIVE SumAmountDue(_)
SumAmountDue(list) ==
    IF list = <<>> THEN 0
    ELSE OrElse(Head(list).amount_due, Num(0)).v + SumAmountDue(Tail(list))

\* totals.overdue of the summary
totalsOverdue == SumAmountDue(SelectSeq(invoices, totalsOverdueFilter))

\* The Send button of a row
sendOffered(invoice) == invoice.status = "draft"

sendInvoice(invoice) ==
    /\ ~loading
    /\ invoice \in InvoiceSet
    /\ sendOffered(invoice)
    /\ Start([Call("send", invoice, <<>>, <<>>, Request("send", invoice.id, <<>>))
                EXCEPT !.pc = "send"])
    /\ UNCHANGED <<envVars, pageVars, modalVars, form, totals, paymentVars, console, created,
                   edits>>

\* Time passes: a day.
Tick ==
    /\ now' = now + HoursPerDay
    /\ UNCHANGED <<timeZone, auth, pageVars, modalVars, form, totals, paymentVars, callVars, edits>>

(***************************************************************************)
(* Recording a payment.                                                    *)
(***************************************************************************)
\* hasBalance that takes any amount for a balance
hasBalanceAnyAmount(invoice) == invoice.amount_due.t = "num"

hasBalance(invoice) == OrElse(invoice.amount_due, Num(0)).v > 0

openPaymentModal(invoice) ==
    /\ ~loading
    /\ invoice \in InvoiceSet
    /\ hasBalance(invoice)
    /\ paymentInvoice' = invoice
    /\ paymentForm' =
        [amount |-> OrElse(IF invoice.amount_due.t = "num"
                           THEN Str(NumToString(invoice.amount_due.v)) ELSE Undef,
                           Str(<<>>)),
         payment_date |-> Str(<<>>)]
    /\ showPaymentModal' = TRUE
    /\ UNCHANGED <<envVars, pageVars, modalVars, form, totals, callVars, edits>>

setPaymentAmount(value) ==
    /\ showPaymentModal
    /\ paymentInvoice # NoInvoice
    /\ paymentForm' = [paymentForm EXCEPT !.amount = value]
    /\ UNCHANGED <<envVars, pageVars, modalVars, form, totals, showPaymentModal,
                   paymentInvoice, callVars>>

setPaymentDate(value) ==
    /\ showPaymentModal
    /\ paymentInvoice # NoInvoice
    /\ paymentForm' = [paymentForm EXCEPT !.payment_date = value]
    /\ UNCHANGED <<envVars, pageVars, modalVars, form, totals, showPaymentModal,
                   paymentInvoice, callVars>>

\* The overlay and the close buttons of the payment modal
closePaymentModal ==
    /\ showPaymentModal
    /\ paymentInvoice # NoInvoice
    /\ showPaymentModal' = FALSE
    /\ UNCHANGED <<envVars, pageVars, modalVars, form, totals, paymentInvoice, paymentForm,
                   callVars, edits>>

\* The amount input is required and has min="0".
PaymentFormValid(f) == ParseFloat(f.amount) # NaN /\ ParseFloat(f.amount).v >= 0

submitPayment ==
    /\ showPaymentModal
    /\ paymentInvoice # NoInvoice
    /\ PaymentFormValid(paymentForm)
    /\ LET first == Request("payment", paymentInvoice.id,
                            <<Num(ParseFloatOrZero(paymentForm.amount)),
                              toIsoDate(paymentForm.payment_date)>>)
       IN  Start([Call("payment", paymentInvoice, <<>>, <<>>, first)
                    EXCEPT !.pc = "payment"])
    /\ UNCHANGED <<envVars, pageVars, modalVars, form, totals, paymentVars, console, created,
                   edits>>

(***************************************************************************)
(* The auth context (AuthProvider), the Auth page and the routes.          *)
(***************************************************************************)
\* The accounts the server knows; a token is written as the account it was
\* issued for, "" is no token in localStorage and no user (null).
Accounts == {"ann", "bob"}

\* All of the state but the auth context.
pageState == <<timeZone, now, pageVars, modalVars, form, totals, paymentVars, callVars, edits>>

\* A request of the auth context not yet answered: a login or a register for
\* an account, or a GET /auth/me sent by the mount effect or by login/register
\* with the token the interceptor found in localStorage.
AuthRequest(op, by, account) == [op |-> op, by |-> by, account |-> account]

\* AuthProvider as it is mounted, with the token a former visit left or none:
\* with a token the mount effect has sent GET /auth/me, without it has set
\* loading to false.
AuthProviderMounted(token) ==
    [token |-> token, user |-> "", loading |-> token # "",
     requests |-> IF token # "" THEN {AuthRequest("me", "mount", token)} ELSE {},
     isLogin |-> TRUE, submitting |-> FALSE, error |-> FALSE, attempts |-> 0]

\* The application is opened: the Invoices page is not rendered yet.
InitAuth ==
    /\ timeZone = 0 /\ now = Noon
    /\ \E token \in Accounts \cup {""} : auth = AuthProviderMounted(token)
    /\ UseStateValues /\ fetches = 0
    /\ latest = [pending |-> FALSE, ok |-> FALSE, data |-> <<>>]

\* PublicRoute renders the Auth page when the startup check is over and there
\* is no user.
AuthPageShown == ~auth.loading /\ auth.user = ""

\* The Sign In and Sign Up tabs of the Auth page.
setIsLogin(value) ==
    /\ AuthPageShown
    /\ value # auth.isLogin
    /\ auth' = [auth EXCEPT !.isLogin = value]
    /\ UNCHANGED pageState

\* Auth.handleSubmit up to the first await of login or register; the submit
\* button is disabled while a submit is under way.
AuthSubmit(op, account) ==
    /\ AuthPageShown
    /\ ~auth.submitting
    /\ auth' = [auth EXCEPT !.error = FALSE, !.submitting = TRUE,
                            !.attempts = auth.attempts + 1,
                            !.requests = auth.requests \cup {AuthRequest(op, "submit", account)}]
    /\ UNCHANGED pageState

login(account) == AuthSubmit("login", account)

register(account) == AuthSubmit("register", account)

AuthHandleSubmit(account) == IF auth.isLogin THEN login(account) ELSE register(account)

\* logout, offered by the sidebar ProtectedRoute renders for a user.  With
\* the user gone the routes render the Auth page anew, in its initial state.
logout ==
    /\ ~auth.loading /\ auth.user # ""
    /\ auth' = [auth EXCEPT !.token = "", !.user = "",
                            !.isLogin = TRUE, !.submitting = FALSE, !.error = FALSE]
    /\ UNCHANGED pageState

\* The answer to a request of the auth context, and what follows the await.
AuthRespond(q, ok) ==
    /\ q \in auth.requests
    /\ LET rest == auth.requests \ {q}
       IN  auth' =
            CASE q.by = "mount" /\ ok ->
                    [auth EXCEPT !.requests = rest, !.user = q.account, !.loading = FALSE]
              [] q.by = "mount" /\ ~ok ->
                    [auth EXCEPT !.requests = rest, !.token = "", !.loading = FALSE]
              [] q.op \in {"login", "register"} /\ ok ->
                    [auth EXCEPT !.token = q.account,
                                 !.requests = rest \cup {AuthRequest("me", "submit", q.account)}]
              [] q.op = "me" /\ ok ->
                    [auth EXCEPT !.requests = rest, !.user = q.account, !.submitting = FALSE]
              [] OTHER ->
                    [auth EXCEPT !.requests = rest, !.error = TRUE, !.submitting = FALSE]
    /\ UNCHANGED pageState

AuthRespondOk(q) == AuthRespond(q, TRUE)
AuthRespondError(q) == AuthRespond(q, FALSE)

(***************************************************************************)
(* What the user and the server may do.  The edits of the forms and the    *)
(* handler invocations of a behaviour are counted against a bound.         *)
(***************************************************************************)
ClientInputs == {Str(<<"9">>)}
DescriptionInputs == {Str(<<" ">>), Str(<<" ", "C">>)}
QuantityInputs == {Str(<<"3">>)}
UnitPriceInputs == {Str(<<"4">>)}
TaxRateInputs == {Str(<<"8">>)}
DiscountInputs == {Str(<<"1", "0">>)}
PaymentAmountInputs == {Str(<<>>)}

Edit(max, A) == edits < max /\ A /\ edits' = edits + 1

Invoke(max, A) == started < max /\ A

\* The whole page.
Next ==
    \/ \E data \in InvoiceLists : FetchInvoicesOk(data)
    \/ FetchInvoicesFail
    \/ \E invoice \in InvoiceSet : handleEdit(invoice)
    \/ openNewModal
    \/ closeModal
    \/ \E value \in ClientInputs : Edit(MaxEdits, setClient(value))
    \/ \E value \in TaxRateInputs : Edit(MaxEdits, setTaxRate(value))
    \/ \E value \in DiscountInputs : Edit(MaxEdits, setDiscountPercent(value))
    \/ \E i \in ItemIndexes, value \in DescriptionInputs :
        Edit(MaxEdits, setItemDescription(i, value))
    \/ \E i \in ItemIndexes, value \in QuantityInputs : Edit(MaxEdits, setItemQuantity(i, value))
    \/ \E i \in ItemIndexes, value \in UnitPriceInputs : Edit(MaxEdits, setItemUnitPrice(i, value))
    \/ Edit(MaxEdits, addItem)
    \/ \E i \in ItemIndexes : Edit(MaxEdits, removeItem(i))
    \/ Invoke(MaxCalls, handleSubmit)
    \/ \E m \in net : RespondOk(m)
    \/ \E m \in net : RespondError(m)
    \/ \E invoice \in InvoiceSet : openPaymentModal(invoice)
    \/ \E value \in PaymentAmountInputs : Edit(MaxEdits, setPaymentAmount(value))
    \/ Invoke(MaxCalls, submitPayment)

Spec == Init /\ [][Next]_vars

\* Saving an edited invoice: the invoice is opened, its items are edited, the
\* form is submitted and the server answers.
NextSave ==
    \/ \E data \in InvoiceLists : FetchInvoicesOk(data)
    \/ \E invoice \in InvoiceSet : handleEdit(invoice)
    \/ \E i \in ItemIndexes, value \in DescriptionInputs :
        Edit(MaxSaveEdits, setItemDescription(i, value))
    \/ Edit(MaxSaveEdits, addItem)
    \/ \E i \in ItemIndexes : Edit(MaxSaveEdits, removeItem(i))
    \/ Invoke(MaxSaves, handleSubmit)
    \/ \E m \in net : RespondOk(m)
    \/ \E m \in net : RespondError(m)

SpecSave == Init /\ [][NextSave]_vars

\* Saving again: the items are edited before the first save, the saves follow
\* one another, each started when the one before has returned, and between
\* them the form is left as it is, or the invoice is opened afresh.
NextRetry ==
    \/ \E data \in InvoiceLists : FetchInvoicesOk(data)
    \/ \E invoice \in InvoiceSet : Running = {} /\ handleEdit(invoice)
    \/ \E i \in ItemIndexes, value \in DescriptionInputs :
        started = 0 /\ Edit(MaxSaveEdits, setItemDescription(i, value))
    \/ started = 0 /\ Edit(MaxSaveEdits, addItem)
    \/ \E i \in ItemIndexes : started = 0 /\ Edit(MaxSaveEdits, removeItem(i))
    \/ Running = {} /\ Invoke(MaxCalls, handleSubmit)
    \/ \E m \in net : RespondOk(m)
    \/ \E m \in net : RespondError(m)

SpecRetry == Init /\ [][NextRetry]_vars

\* Editing the form: the totals shown are recomputed as the form changes.
TotalsDescriptionInputs == {Str(<<>>), Str(<<"D">>)}
TotalsQuantityInputs == {Str(<<>>), Str(<<"1", "0">>), Str(<<"-", "2">>)}
TotalsUnitPriceInputs == {Str(<<>>), Str(<<"5", "0">>)}
TotalsTaxRateInputs == {Str(<<>>), Str(<<"8">>)}
TotalsDiscountInputs == {Str(<<>>), Str(<<"1", "0">>), Str(<<"1", "5", "0">>)}

NextTotals ==
    \/ \E data \in InvoiceLists : FetchInvoicesOk(data)
    \/ \E invoice \in InvoiceSet : handleEdit(invoice)
    \/ openNewModal
    \/ \E value \in ClientInputs : Edit(MaxEdits, setClient(value))
    \/ \E value \in TotalsTaxRateInputs : Edit(MaxEdits, setTaxRate(value))
    \/ \E value \in TotalsDiscountInputs : Edit(MaxEdits, setDiscountPercent(value))
    \/ \E i \in ItemIndexes, value \in TotalsDescriptionInputs :
        Edit(MaxEdits, setItemDescription(i, value))
    \/ \E i \in ItemIndexes, value \in TotalsQuantityInputs :
        Edit(MaxEdits, setItemQuantity(i, value))
    \/ \E i \in ItemIndexes, value \in TotalsUnitPriceInputs :
        Edit(MaxEdits, setItemUnitPrice(i, value))
    \/ Edit(MaxEdits, addItem)
    \/ \E i \in ItemIndexes : Edit(MaxEdits, removeItem(i))

SpecTotals == Init /\ [][NextTotals]_vars

\* Signing in and out: the startup check, login, register and logout, and
\* the answers of the server.
NextAuth ==
    \/ \E value \in BOOLEAN : setIsLogin(value)
    \/ \E account \in Accounts : auth.attempts < MaxAuthCalls /\ AuthHandleSubmit(account)
    \/ logout
    \/ \E q \in auth.requests : AuthRespondOk(q)
    \/ \E q \in auth.requests : AuthRespondError(q)

SpecAuth == InitAuth /\ [][NextAuth]_vars

\* Filling in the form and submitting it: the fields may be left empty or
\* hold white space, and an invoice may come with an item that lacks fields.
ItemLacking == Item(Num(3), Undef, Undef, Num(4))
FormInvoiceLists == { <<Invoice(7, <<ItemA, ItemLacking>>, Num(13))>> }
FormClientInputs == {Str(<<>>), Str(<<"9">>)}
FormDescriptionInputs == {Str(<<" ">>), Str(<<" ", "C", " ">>)}
FormQuantityInputs == {Str(<<>>), Str(<<"3">>)}
FormTaxRateInputs == {Str(<<>>), Str(<<"8">>)}

NextForm ==
    \/ \E data \in FormInvoiceLists : FetchInvoicesOk(data)
    \/ \E invoice \in InvoiceSet : handleEdit(invoice)
    \/ openNewModal
    \/ \E value \in FormClientInputs : Edit(MaxFormEdits, setClient(value))
    \/ \E value \in FormTaxRateInputs : Edit(MaxFormEdits, setTaxRate(value))
    \/ \E value \in FormTaxRateInputs : Edit(MaxFormEdits, setDiscountPercent(value))
    \/ \E i \in ItemIndexes, value \in FormDescriptionInputs :
        Edit(MaxFormEdits, setItemDescription(i, value))
    \/ \E i \in ItemIndexes, value \in FormQuantityInputs :
        Edit(MaxFormEdits, setItemQuantity(i, value))
    \/ Edit(MaxFormEdits, addItem)
    \/ Invoke(MaxSaves, handleSubmit)
    \/ \E m \in net : RespondOk(m)

SpecForm == Init /\ [][NextForm]_vars

\* Negative numbers in the form: an invoice may come with an item of negative
\* quantity, and the user may type a minus sign into the number inputs.
ItemCredit == Item(Num(2), Str(<<"B">>), Num(0 - 2), Num(3))
NegativeInvoiceLists == { <<Invoice(7, <<ItemA, ItemCredit>>, Num(13))>> }
NegativeQuantityInputs == {Str(<<"-", "2">>), Str(<<"3">>)}
NegativeUnitPriceInputs == {Str(<<"-", "4">>), Str(<<"4">>)}

NextNegatives ==
    \/ \E data \in NegativeInvoiceLists : FetchInvoicesOk(data)
    \/ \E invoice \in InvoiceSet : handleEdit(invoice)
    \/ openNewModal
    \/ \E value \in ClientInputs : Edit(MaxFormEdits, setClient(value))
    \/ \E i \in ItemIndexes, value \in DescriptionInputs :
        Edit(MaxFormEdits, setItemDescription(i, value))
    \/ \E i \in ItemIndexes, value \in NegativeQuantityInputs :
        Edit(MaxFormEdits, setItemQuantity(i, value))
    \/ \E i \in ItemIndexes, value \in NegativeUnitPriceInputs :
        Edit(MaxFormEdits, setItemUnitPrice(i, value))
    \/ Invoke(MaxSaves, handleSubmit)
    \/ \E m \in net : RespondOk(m)

SpecNegatives == Init /\ [][NextNegatives]_vars

\* Dates and payment terms, in any time zone: the dates of the form are
\* edited and the terms are changed.
PAYMENT_TERMS == {"due_on_receipt", "net_7", "net_15", "net_30", "net_60", "custom"}

DateValue(y, m, d) == Str(DateString(DayNumber(y, m, d)))

DatedInvoice ==
    [Invoice(7, <<ItemA>>, Num(13)) EXCEPT
        !.issue_date = Str(toISOString(DayNumber(2024, 1, 1) * HoursPerDay)),
        !.due_date = Str(toISOString(DayNumber(2024, 1, 31) * HoursPerDay)),
        !.payment_terms = "net_30"]

DateInvoiceLists == { <<DatedInvoice>> }
IssueDateInputs == {Str(<<>>), DateValue(2024, 1, 1), DateValue(2024, 2, 28)}
DueDateInputs == {DateValue(2024, 3, 5)}
PaymentDateInputs == {DateValue(2024, 1, 9)}

NextDates ==
    \/ \E data \in DateInvoiceLists : FetchInvoicesOk(data)
    \/ \E invoice \in InvoiceSet : handleEdit(invoice)
    \/ openNewModal
    \/ \E value \in IssueDateInputs : Edit(MaxDateEdits, setIssueDate(value))
    \/ \E value \in DueDateInputs : Edit(MaxDateEdits, setDueDate(value))
    \/ \E value \in PAYMENT_TERMS : Edit(MaxDateEdits, handleTermsChange(value))

SpecDates == InitZones /\ [][NextDates]_vars

\* Sending dates, in any time zone: the dates of the invoice form and of the
\* payment form are edited and the forms are submitted.
\* The invoice as the server holds it when it was saved before from a browser
\* two hours ahead of UTC.
SavedInvoice ==
    [DatedInvoice EXCEPT
        !.issue_date = Str(toISOString(DayNumber(2024, 1, 1) * HoursPerDay - 2)),
        !.due_date = Str(toISOString(DayNumber(2024, 1, 31) * HoursPerDay - 2))]

SendInvoiceLists == DateInvoiceLists \cup { <<SavedInvoice>> }

NextSend ==
    \/ \E data \in SendInvoiceLists : FetchInvoicesOk(data)
    \/ \E invoice \in InvoiceSet : handleEdit(invoice)
    \/ \E value \in IssueDateInputs : Edit(MaxDateEdits, setIssueDate(value))
    \/ \E value \in DueDateInputs : Edit(MaxDateEdits, setDueDate(value))
    \/ Invoke(MaxSaves, handleSubmit)
    \/ \E invoice \in InvoiceSet : openPaymentModal(invoice)
    \/ \E value \in PaymentDateInputs : Edit(MaxDateEdits, setPaymentDate(value))
    \/ Invoke(MaxSaves, submitPayment)
    \/ \E m \in net : RespondOk(m)

SpecSend == InitZones /\ [][NextSend]_vars

\* The invoice table: the list is fetched, time passes, invoices are sent
\* and payments are recorded.
RowInvoice(id, status, due, amount_due) ==
    [Invoice(id, <<>>, amount_due) EXCEPT !.status = status, !.due_date = due]

DueOn(y, m, d) == Str(toISOString(DayNumber(y, m, d) * HoursPerDay))

RowInvoiceLists ==
    { <<RowInvoice(1, "sent", DueOn(2024, 1, 9), Num(13)),
        RowInvoice(2, "paid", DueOn(2024, 1, 9), Num(0)),
        RowInvoice(3, "draft", DueOn(2024, 1, 11), Num(13))>>,
      <<RowInvoice(4, "cancelled", DueOn(2024, 1, 9), Num(13)),
        RowInvoice(5, "overdue", DueOn(2024, 1, 9), Num(13)),
        RowInvoice(6, "partially_paid", Undef, Undef)>> }

PaymentInputs == {Str(<<"5">>)}

NextRows ==
    \/ \E data \in RowInvoiceLists : FetchInvoicesOk(data)
    \/ now < Noon + MaxTicks * HoursPerDay /\ Tick
    \/ \E invoice \in InvoiceSet : Invoke(MaxCalls, sendInvoice(invoice))
    \/ \E invoice \in InvoiceSet : openPaymentModal(invoice)
    \/ closePaymentModal
    \/ \E value \in PaymentInputs : Edit(MaxEdits, setPaymentAmount(value))
    \/ Invoke(MaxCalls, submitPayment)
    \/ \E m \in net : RespondOk(m)
    \/ \E m \in net : RespondError(m)

SpecRows == Init /\ [][NextRows]_vars

(***************************************************************************)
(* Properties of the save path.                                            *)
(***************************************************************************)
EditCalls == {c \in Running : calls[c].kind = "edit"}

IsUpsert(r) == r.op \in {"update", "create"}
IsItemRequest(r) == r.op \in {"update", "create", "delete"}
ItemRequests(call) == SelectSeq(call.sent, IsItemRequest)
Upserts(call) == SelectSeq(call.sent, IsUpsert)

\* The item carries a persisted id.
HasId(b) == b.id.t = "num" /\ b.id.v # 0

\* The description is missing or holds white space only.
Blank(d) == d.t # "str" \/ \A i \in 1..Len(d.v) : d.v[i] \in {" ", "\t"}

\* The description from its first to its last character that is not white space.
Stripped(d) ==
    LET solid == {i \in 1..Len(d.v) : d.v[i] \notin {" ", "\t"}}
        first == CHOOSE i \in solid : \A j \in solid : i <= j
        last == CHOOSE i \in solid : \A j \in solid : j <= i
    IN  IF Blank(d) THEN <<>> ELSE SubSeq(d.v, first, last)

\* The body an item request for buffer item b is to carry.
BodyOf(b) ==
    <<Str(Stripped(b.description)), Num(ParseFloatOrZero(b.quantity)),
      Num(ParseFloatOrZero(b.unit_price))>>

\* Request r is the update or create request of buffer item b.
Derived(r, b) ==
    /\ r.body = BodyOf(b)
    /\ IF HasId(b) THEN r.op = "update" /\ r.id = b.id.v ELSE r.op = "create"

\* The requests are requests of items of the buffer, taken in buffer order.
RECURSIVE Embeds(_, _)
Embeds(reqs, buffer) ==
    IF reqs = <<>> THEN TRUE
    ELSE IF buffer = <<>> THEN FALSE
    ELSE IF Derived(Head(reqs), Head(buffer))
         THEN Embeds(Tail(reqs), Tail(buffer))
         ELSE Embeds(reqs, Tail(buffer))

\* Every request of the plan of the call has been sent.
AllSent(call) == call.pc = "items" /\ call.k = Len(syncPlan(call.invoice, call.items))

\* The step in which call c returns on the success path: only there is the
\* list refetched.
SaveSucceeds(c) == c \in Running /\ c \notin DOMAIN calls' /\ fetches' = fetches + 1

\* The step in which call c returns from its catch block.
CallFails(c) == c \in Running /\ c \notin DOMAIN calls' /\ fetches' = fetches

\* C1: in every save of an edited invoice the update and create requests sent
\* so far follow the order of the items in the edit buffer, and no update or
\* create request is sent after a delete request.
C1_UpsertsInBufferOrderThenDeletes ==
    \A c \in EditCalls :
        LET reqs == ItemRequests(calls[c])
        IN  /\ \A i, j \in 1..Len(reqs) :
                i < j /\ reqs[i].op = "delete" => reqs[j].op = "delete"
            /\ Embeds(Upserts(calls[c]), calls[c].buffer)

\* Persisted [A(id 1), B(id 2)], buffer [A(id 1), C(no id)]: update(1),
\* create(C), delete(2) have been sent, in that order.
C1_Witness ==
    \E c \in EditCalls :
        LET reqs == ItemRequests(calls[c])
        IN  /\ Len(calls[c].buffer) = 2
            /\ HasId(calls[c].buffer[1]) /\ ~HasId(calls[c].buffer[2])
            /\ Len(reqs) = 3
            /\ reqs[1].op = "update" /\ reqs[1].id = 1
            /\ reqs[2].op = "create"
            /\ reqs[3].op = "delete" /\ reqs[3].id = 2

UpdatesFor(call, id) ==
    {j \in 1..Len(call.sent) : call.sent[j].op = "update" /\ call.sent[j].id = id}

\* Exactly one update request was sent for buffer item b, with its values.
UpdatedOnce(call, b) ==
    /\ Cardinality(UpdatesFor(call, b.id.v)) = 1
    /\ \A j \in UpdatesFor(call, b.id.v) : call.sent[j].body = BodyOf(b)

BufferIndexes(call) == 1..Len(call.buffer)

\* C2 as claimed: when a save of an edited invoice succeeds, exactly one update
\* request has been sent for every buffer item that carries an id.
C2_UpdateForEveryItemWithId ==
    [][\A c \in EditCalls : SaveSucceeds(c) =>
        \A i \in BufferIndexes(calls[c]) :
            HasId(calls[c].buffer[i]) => UpdatedOnce(calls[c], calls[c].buffer[i])]_vars

\* C2, amended: when a save of an edited invoice succeeds, exactly one update
\* request has been sent for every buffer item that carries an id and whose
\* description is not blank, with the stripped description and the numeric
\* quantity and unit price of the item; for a buffer item that carries an id
\* and whose description is blank no update request has been sent.
C2_UpdateForEveryKeptItemWithId ==
    [][\A c \in EditCalls : SaveSucceeds(c) =>
        \A i \in BufferIndexes(calls[c]) :
            LET b == calls[c].buffer[i]
            IN  HasId(b) =>
                    IF Blank(b.description)
                    THEN UpdatesFor(calls[c], b.id.v) = {}
                    ELSE UpdatedOnce(calls[c], b)]_vars

\* All requests of a save are sent whose buffer holds an item with an id and a
\* description and an item with an id and a blank description.
C2_Witness ==
    \E c \in EditCalls :
        /\ AllSent(calls[c])
        /\ \E i, j \in BufferIndexes(calls[c]) :
            /\ HasId(calls[c].buffer[i]) /\ ~Blank(calls[c].buffer[i].description)
            /\ UpdatedOnce(calls[c], calls[c].buffer[i])
            /\ HasId(calls[c].buffer[j]) /\ Blank(calls[c].buffer[j].description)

PersistedIds(call) == {call.invoice.items[i].id.v : i \in 1..Len(call.invoice.items)}
BufferIds(call) == {call.buffer[i].id.v : i \in {j \in BufferIndexes(call) : HasId(call.buffer[j])}}
KeptIds(call) ==
    {call.buffer[i].id.v :
        i \in {j \in BufferIndexes(call) :
                HasId(call.buffer[j]) /\ ~Blank(call.buffer[j].description)}}
DeletedIds(call) ==
    {call.sent[j].id : j \in {n \in 1..Len(call.sent) : call.sent[n].op = "delete"}}

\* C3 as claimed: no delete request is ever sent for an id that is among the
\* ids of the buffer items, and when the save succeeds a delete request has
\* been sent for exactly the persisted items whose id is not among them.
C3_DeleteIffIdNotInBuffer ==
    [][\A c \in EditCalls :
        /\ DeletedIds(calls[c]) \cap BufferIds(calls[c]) = {}
        /\ SaveSucceeds(c) =>
            DeletedIds(calls[c]) = PersistedIds(calls[c]) \ BufferIds(calls[c])]_vars

\* C3, amended: no delete request is ever sent for an id that is among the ids
\* of the buffer items whose description is not blank, and when the save
\* succeeds a delete request has been sent for exactly the persisted items
\* whose id is not among those: a persisted item whose description was blanked
\* in the buffer is deleted.
C3_DeleteIffIdNotKept ==
    [][\A c \in EditCalls :
        /\ DeletedIds(calls[c]) \cap KeptIds(calls[c]) = {}
        /\ DeletedIds(calls[c]) \subseteq PersistedIds(calls[c])
        /\ SaveSucceeds(c) =>
            DeletedIds(calls[c]) = PersistedIds(calls[c]) \ KeptIds(calls[c])]_vars

\* All requests of a save are sent, among them the delete of an item that was
\* removed from the buffer and the delete of an item that was blanked in it.
C3_Witness ==
    \E c \in EditCalls :
        /\ AllSent(calls[c])
        /\ DeletedIds(calls[c]) \ BufferIds(calls[c]) # {}
        /\ DeletedIds(calls[c]) \cap BufferIds(calls[c]) # {}

Creates(call) ==
    LET IsCreate(r) == r.op = "create" IN SelectSeq(call.sent, IsCreate)

NewItems(call) ==
    LET IsNew(b) == ~HasId(b) IN SelectSeq(call.buffer, IsNew)

KeptNewItems(call) ==
    LET IsKeptNew(b) == ~HasId(b) /\ ~Blank(b.description)
    IN  SelectSeq(call.buffer, IsKeptNew)

Bodies(items) == [i \in 1..Len(items) |-> BodyOf(items[i])]
RequestBodies(reqs) == [i \in 1..Len(reqs) |-> reqs[i].body]

\* C4 as claimed: when a save of an edited invoice succeeds, the create requests
\* sent are one for every buffer item without an id, with the values of that
\* item, and no other.
C4_CreateForEveryNewItem ==
    [][\A c \in EditCalls : SaveSucceeds(c) =>
        RequestBodies(Creates(calls[c])) = Bodies(NewItems(calls[c]))]_vars

\* C4, amended: when a save of an edited invoice succeeds, the create requests
\* sent are one for every buffer item without an id whose description is not
\* blank, with the stripped description and the numeric quantity and unit
\* price of that item, and no other: a blank row is not created.
C4_CreateForEveryKeptNewItem ==
    [][\A c \in EditCalls : SaveSucceeds(c) =>
        RequestBodies(Creates(calls[c])) = Bodies(KeptNewItems(calls[c]))]_vars

\* All requests of a save are sent whose buffer holds a new item with a
\* description, a new blank row and an item with an id.
C4_Witness ==
    \E c \in EditCalls :
        /\ AllSent(calls[c])
        /\ Len(KeptNewItems(calls[c])) = 1
        /\ Len(NewItems(calls[c])) = 2
        /\ Len(Creates(calls[c])) = 1
        /\ BufferIds(calls[c]) # {}

Outstanding(c) == {m \in net : m.call = c}

\* C6: a running save has at most one request outstanding, and that request is
\* the one it sent last: every request before it has been answered.
C6_OneRequestOutstanding ==
    \A c \in Running :
        /\ Cardinality(Outstanding(c)) <= 1
        /\ \A m \in Outstanding(c) : m.req = calls[c].sent[Len(calls[c].sent)]

\* A save has sent its third item request and waits for the answer to it.
C6_Witness ==
    \E c \in EditCalls :
        /\ calls[c].k = 3
        /\ Cardinality(Outstanding(c)) = 1

Saves == {c \in Running : calls[c].kind \in {"edit", "create"}}

\* C5: at most one save is running at any time: while the requests of one
\* handleSubmit are outstanding no second handleSubmit sends requests.
C5_OneSaveInFlight == Cardinality(Saves) <= 1

\* C7: when a save of an edited invoice fails after at least one of its item
\* requests succeeded, the state the page renders from changes: without that
\* nothing about the failure, let alone which requests succeeded, is reported.
C7_PartialFailureReported ==
    [][\A c \in EditCalls :
        CallFails(c) /\ calls[c].pc = "items" /\ calls[c].k >= 2
            => uiState' # uiState]_vars

\* C8: when a request of a save or of a payment fails, the failure shows in
\* the state the page renders from, and the failed request is not sent again.
C8_FailureSurfacedAndNotRetried ==
    [][\A c \in Running : CallFails(c) => uiState' # uiState /\ net' \subseteq net]_vars

(***************************************************************************)
(* Properties of the totals.                                               *)
(***************************************************************************)
KeptIndexes(f) == {i \in 1..Len(f.items) : ~Blank(f.items[i].description)}

RECURSIVE SumOver(_, _)
SumOver(f, indexes) ==
    IF indexes = {} THEN 0
    ELSE LET i == CHOOSE j \in indexes : TRUE
         IN  ParseFloatOrZero(f.items[i].quantity) * ParseFloatOrZero(f.items[i].unit_price)
                + SumOver(f, indexes \ {i})

\* The reference computation, in units of 1/(Percent*Percent): with subtotal s,
\* discount percentage d and tax rate t, discount = s*d/100,
\* tax = (s - discount)*t/100 and total = s - discount + tax.
ReferenceTotals(f) ==
    LET s == SumOver(f, KeptIndexes(f))
        d == ParseFloatOrZero(f.discount_percent)
        t == ParseFloatOrZero(f.tax_rate)
        subtotal == s * Percent * Percent
        discount == s * d * Percent
        tax == (s * Percent - s * d) * t
    IN  [subtotal |-> subtotal, discount |-> discount, tax |-> tax,
         total |-> subtotal - discount + tax]

\* C9: the totals shown are the reference computation on the current form.
C9_TotalsAreReference == totals = ReferenceTotals(form)

\* One item of quantity 10 and unit price 50, discount 10 and tax 8: subtotal
\* 500, discount 50, tax 36, total 486.
C9_Witness ==
    /\ \E i \in 1..Len(form.items) :
        /\ KeptIndexes(form) = {i}
        /\ ParseFloatOrZero(form.items[i].quantity) = 10
        /\ ParseFloatOrZero(form.items[i].unit_price) = 50
    /\ ParseFloatOrZero(form.discount_percent) = 10
    /\ ParseFloatOrZero(form.tax_rate) = 8
    /\ totals = [subtotal |-> 500 * Percent * Percent, discount |-> 50 * Percent * Percent,
                 tax |-> 36 * Percent * Percent, total |-> 486 * Percent * Percent]

NonNegativeItems(f) ==
    \A i \in KeptIndexes(f) :
        /\ ParseFloatOrZero(f.items[i].quantity) >= 0
        /\ ParseFloatOrZero(f.items[i].unit_price) >= 0

\* C10: when the quantities and unit prices of the form are not negative, the
\* total shown is not negative.
C10_TotalNotNegative == NonNegativeItems(form) => totals.total >= 0

(***************************************************************************)
(* Properties of normalization and validation.                             *)
(***************************************************************************)
NotBlank(b) == ~Blank(b.description)

\* The string is a decimal numeral.
Numeral(s) == s # <<>> /\ \A i \in 1..Len(s) : s[i] \in {Digits[d] : d \in 1..Len(Digits)}

Numeric(x) == x.t = "num" \/ (x.t = "str" /\ Numeral(x.v))

RECURSIVE NumeralValue(_)
NumeralValue(s) ==
    IF s = <<>> THEN 0
    ELSE 10 * NumeralValue(SubSeq(s, 1, Len(s) - 1)) + DigitVal(s[Len(s)])

NumericOrZero(x) ==
    IF ~Numeric(x) THEN 0 ELSE IF x.t = "num" THEN x.v ELSE NumeralValue(x.v)

\* C11: the items a save works on are the items of the form whose description
\* is not blank (missing, empty or white space only), in the order of the
\* form, each with its id, and with a quantity and a unit price that are the
\* number the field holds, or 0 when the field holds no number.
C11_NormalizedItems ==
    \A c \in Saves :
        LET kept == SelectSeq(calls[c].buffer, NotBlank)
            items == calls[c].items
        IN  /\ Len(items) = Len(kept)
            /\ \A i \in 1..Len(kept) :
                /\ items[i].id = kept[i].id
                /\ items[i].description = Str(Stripped(kept[i].description))
                /\ items[i].quantity = Num(NumericOrZero(kept[i].quantity))
                /\ items[i].unit_price = Num(NumericOrZero(kept[i].unit_price))

\* A save of a form with a blank item before a kept item whose quantity holds
\* no number.
C11_Witness ==
    \E c \in Saves :
        \E i, j \in 1..Len(calls[c].buffer) :
            /\ i < j
            /\ Blank(calls[c].buffer[i].description)
            /\ NotBlank(calls[c].buffer[j])
            /\ ~Numeric(calls[c].buffer[j].quantity)
            /\ calls[c].items # <<>>

\* C19: a submit of the invoice form sends a request only when a client is
\* selected and the tax rate and the discount both hold a number.
C19_InvalidFormNotSubmitted ==
    [][(\E c \in DOMAIN calls' \ Running : calls'[c].kind \in {"edit", "create"})
        => /\ Truthy(form.client_id)
           /\ Numeric(form.tax_rate)
           /\ Numeric(form.discount_percent)]_vars

(***************************************************************************)
(* Properties of the dates.                                                *)
(***************************************************************************)
\* The step is a change of the payment terms by the user.
TermsChanged == edits' = edits + 1 /\ form'.payment_terms # form.payment_terms

\* The days each of the terms gives
TermsOffset(terms) ==
    CASE terms = "due_on_receipt" -> 0
      [] terms = "net_7" -> 7
      [] terms = "net_15" -> 15
      [] terms = "net_30" -> 30
      [] terms = "net_60" -> 60

\* C12: when the terms are changed to other than custom and the issue date
\* is set, the due date becomes the calendar date that many days after the
\* issue date, in every time zone.
C12_DueDateIsIssueDatePlusOffset ==
    [][TermsChanged /\ form'.payment_terms # "custom" /\ form.issue_date # Str(<<>>)
        => form'.due_date =
            Str(DateString(ParseDay(form.issue_date.v) + TermsOffset(form'.payment_terms)))]_vars

\* C13: a change of the terms to custom changes the terms and nothing else of
\* the form; the due date stays.
C13_CustomKeepsDueDate ==
    [][TermsChanged /\ form'.payment_terms = "custom"
        => form' = [form EXCEPT !.payment_terms = "custom"]]_vars

\* The terms were changed to custom on a form with an issue date and a due date.
C13_Witness ==
    /\ showModal
    /\ edits > 0
    /\ form.payment_terms = "custom"
    /\ form.issue_date # Str(<<>>)
    /\ form.due_date # Str(<<>>)

\* C14: a change of the terms while the issue date is empty changes the terms
\* and nothing else of the form.
C14_NoIssueDateOnlyTermsChange ==
    [][TermsChanged /\ form.issue_date = Str(<<>>)
        => form' = [form EXCEPT !.payment_terms = form'.payment_terms]]_vars

\* The terms of a new invoice were changed to net 7 after the issue date was
\* cleared, and the due date is still the one the form came with.
C14_Witness ==
    /\ showModal
    /\ editingInvoice = NoInvoice
    /\ form.issue_date = Str(<<>>)
    /\ form.payment_terms = "net_7"
    /\ form.due_date = getDefaultForm.due_date

\* The timestamp of the start of a calendar day; none for an empty date.
StartOfDay(dateValue) ==
    IF dateValue = Str(<<>>) THEN Undef
    ELSE Str(dateValue.v \o <<"T", "0", "0", ":", "0", "0", ":", "0", "0",
                              ".", "0", "0", "0", "Z">>)

\* C20: the dates a save or a payment sends are the timestamps of the start
\* of the calendar days the form holds, and an empty date is sent as absent.
C20_DatesSentAsStartOfDay ==
    [][\A c \in DOMAIN calls' \ Running :
        LET body == calls'[c].sent[1].body
        IN  IF calls'[c].kind = "payment"
            THEN body[2] = StartOfDay(paymentForm.payment_date)
            ELSE /\ body[1] = StartOfDay(form.issue_date)
                 /\ body[2] = StartOfDay(form.due_date)]_vars

(***************************************************************************)
(* Properties of the invoice table.                                        *)
(***************************************************************************)
Terminal == {"paid", "cancelled"}

\* One UTC timestamp is earlier than another: at the first character where
\* they differ it has the smaller digit.
RECURSIVE Earlier(_, _)
Earlier(a, b) ==
    IF a = <<>> \/ b = <<>> THEN FALSE
    ELSE IF Head(a) = Head(b) THEN Earlier(Tail(a), Tail(b))
    ELSE DigitVal(Head(a)) < DigitVal(Head(b))

\* The due date of the invoice is set and earlier than the current time.
PastDue(invoice) ==
    /\ invoice.due_date # Undef
    /\ invoice.due_date # Str(<<>>)
    /\ Earlier(invoice.due_date.v, toISOString(now))

\* C15: the overdue flag of a row is set exactly when the invoice has a due
\* date earlier than the current time and its status is neither paid nor
\* cancelled.
C15_OverdueFlag ==
    \A i \in 1..Len(invoices) :
        isOverdue(invoices[i]) <=> (PastDue(invoices[i]) /\ invoices[i].status \notin Terminal)

\* A sent invoice past its due date is flagged, a paid one past the same due
\* date is not, and an invoice that was not yet due has become overdue.
C15_Witness ==
    /\ ~loading
    /\ \E i, j, k \in 1..Len(invoices) :
        /\ invoices[i].status = "sent" /\ isOverdue(invoices[i])
        /\ invoices[j].status = "paid" /\ invoices[j].due_date = invoices[i].due_date
        /\ ~isOverdue(invoices[j])
        /\ invoices[k].status = "draft" /\ isOverdue(invoices[k])

\* C16: an invoice is counted in the Overdue total of the summary exactly
\* when its row is flagged overdue.
C16_OverdueTotalCountsFlaggedRows ==
    \A i \in 1..Len(invoices) :
        totalsOverdueFilter(invoices[i]) <=> isOverdue(invoices[i])

\* C17: no send request and no payment request is issued for an invoice whose
\* status is paid or cancelled.
C17_NoActionOnTerminalInvoice ==
    [][\A c \in DOMAIN calls' \ Running :
        calls'[c].kind \in {"send", "payment"} => calls'[c].invoice.status \notin Terminal]_vars

\* The amount due is a number greater than 0.
PositiveAmountDue(invoice) == invoice.amount_due.t = "num" /\ invoice.amount_due.v >= 1

\* C18: the payment action is available for an invoice of the table exactly
\* when its amount due is greater than 0, and the payment modal opens only
\* by that action, for such an invoice.
C18_PaymentOfferedIffBalance ==
    /\ [](\A i \in 1..Len(invoices) :
            (ENABLED openPaymentModal(invoices[i])) <=> PositiveAmountDue(invoices[i]))
    /\ [][showPaymentModal' /\ ~showPaymentModal
            => \E i \in 1..Len(invoices) :
                /\ PositiveAmountDue(invoices[i])
                /\ paymentInvoice' = invoices[i]]_vars

\* The payment modal is open for an invoice with a balance, next to invoices
\* with no amount due and with an amount due of 0.
C18_Witness ==
    /\ showPaymentModal
    /\ PositiveAmountDue(paymentInvoice)
    /\ \E i \in 1..Len(invoices) : invoices[i].amount_due = Num(0) \/ invoices[i].amount_due = Undef

(***************************************************************************)
(* Properties of saving again.                                             *)
(***************************************************************************)
\* The item requests of a save, worked out from the persisted items of the
\* invoice and the edit buffer and from nothing else: an update or a create
\* for every buffer item that is kept, in buffer order, then a delete for
\* every persisted item whose id no kept buffer item carries.
FreshOperations(persisted, buffer) ==
    LET kept == SelectSeq(buffer, NotBlank)
        keptIds == {kept[i].id.v : i \in {j \in 1..Len(kept) : HasId(kept[j])}}
        Stale(item) == item.id.v \notin keptIds
        stale == SelectSeq(persisted, Stale)
    IN  [i \in 1..Len(kept) |->
            IF HasId(kept[i]) THEN Request("update", kept[i].id.v, BodyOf(kept[i]))
                              ELSE Request("create", 0, BodyOf(kept[i]))]
        \o [i \in 1..Len(stale) |-> Request("delete", stale[i].id.v, <<>>)]

IsPrefix(s, t) == Len(s) <= Len(t) /\ s = SubSeq(t, 1, Len(s))

\* C21: every save of an edited invoice takes the invoice being edited and
\* the edit buffer as they are when it starts, and the item requests it sends
\* are the first of the operations worked out from that invoice's persisted
\* items and that buffer alone, whatever earlier saves have done.
C21_DiffRecomputedOnEverySave ==
    /\ [](\A c \in EditCalls :
            IsPrefix(ItemRequests(calls[c]),
                     FreshOperations(calls[c].invoice.items, calls[c].buffer)))
    /\ [][\A c \in DOMAIN calls' \ Running :
            calls'[c].invoice = editingInvoice /\ calls'[c].buffer = form.items]_vars

\* A second save of the form, after a first save that failed when the server
\* had created an item, has sent all its operations again, the create included.
C21_Witness ==
    \E c \in EditCalls :
        /\ c = 2
        /\ created # EmptyBag
        /\ \E i \in 1..Len(calls[c].sent) :
            calls[c].sent[i].op = "create" /\ BagIn(calls[c].sent[i].body, created)
        /\ ItemRequests(calls[c])
            = FreshOperations(calls[c].invoice.items, calls[c].buffer)
        /\ Len(ItemRequests(calls[c])) >= 3

\* The kept items of the form that carry no id and are to be created with
\* the body given.
NewItemsWith(body) ==
    {i \in 1..Len(form.items) :
        NotBlank(form.items[i]) /\ ~HasId(form.items[i]) /\ BodyOf(form.items[i]) = body}

\* C24: while the form of an edited invoice stays open and unchanged, the
\* server has created no item of the form more often than the form holds it,
\* however many saves have failed along the way.
C24_NoItemCreatedTwice ==
    showModal /\ editingInvoice # NoInvoice
        => \A body \in BagToSet(created) :
            CopiesIn(body, created) <= Cardinality(NewItemsWith(body))
(***************************************************************************)
(* Properties of recomputing the totals.                                   *)
(***************************************************************************)
\* The part of the form the totals are computed from.
TotalsInput(f) == <<f.items, f.tax_rate, f.discount_percent>>

\* C22: a render that leaves the items, the tax rate and the discount of the
\* form as they were shows the totals it showed before, and they are the
\* totals computed from the form again; the totals shown never differ from
\* the computation, so computing them leaves nothing behind.
C22_RecomputingTotalsChangesNothing ==
    [][/\ TotalsInput(form') = TotalsInput(form)
            => totals' = totals /\ calculateFormTotals(form') = totals
       /\ totals' = calculateFormTotals(form')]_vars

\* The client has been chosen in a form with an item: the page has rendered
\* again with the same items and rates, and the totals are the same 486.
C22_Witness ==
    /\ showModal
    /\ form.client_id = Str(<<"9">>)
    /\ edits >= 1
    /\ editingInvoice # NoInvoice
    /\ TotalsInput(form) = TotalsInput(handleEditForm(editingInvoice))
    /\ totals.total > 0
    /\ totals = calculateFormTotals(form)
(***************************************************************************)
(* Properties of negative quantities and unit prices.                      *)
(***************************************************************************)
NegativeNumber(x) == ParseFloatOrZero(x) < 0

\* The kept items of the form with a negative quantity or unit price.
NegativeKept(f) ==
    {i \in KeptIndexes(f) :
        NegativeNumber(f.items[i].quantity) \/ NegativeNumber(f.items[i].unit_price)}

\* The quantities and unit prices a request carries.
NumbersSent(req) ==
    CASE req.op \in {"update", "create"} -> {req.body[2], req.body[3]}
      [] req.op = "create_invoice" ->
            UNION {{req.body[7][i].quantity, req.body[7][i].unit_price} :
                    i \in 1..Len(req.body[7])}
      [] OTHER -> {}

\* The form but for its negative numbers can be submitted: a client is
\* chosen and no save is under way.
Submittable == showModal /\ Truthy(form.client_id) /\ started = 0

\* C23 as claimed: a form with a kept item of negative quantity or unit price
\* can be saved, and the save sends the item with its negative value.
C23_NegativeItemsAreSent ==
    Submittable /\ NegativeKept(form) # {} => ENABLED handleSubmit

\* C23 amended: a kept item with a negative quantity or unit price counts
\* with quantity*unit_price in the subtotal and is normalized to its negative
\* value, not to 0; but the form holding it cannot be submitted, and no
\* request carries a negative quantity or unit price.
C23_NegativesCountedButNotSubmitted ==
    /\ totals.subtotal = SumOver(form, KeptIndexes(form)) * Percent * Percent
    /\ \A i \in KeptIndexes(form) :
        /\ normalizeItem(form.items[i]).quantity = ParseFloat(form.items[i].quantity)
        /\ normalizeItem(form.items[i]).unit_price = ParseFloat(form.items[i].unit_price)
    /\ NegativeKept(form) # {} => ~ENABLED handleSubmit
    /\ \A m \in net : \A x \in NumbersSent(m.req) : x.v >= 0

\* Invoice 7 is opened with items 10 x 50 and -2 x 3: the subtotal is 494,
\* a client is chosen, and the form cannot be submitted.
C23_Witness ==
    /\ Submittable
    /\ \E i \in NegativeKept(form) : ParseFloatOrZero(form.items[i].quantity) = 0 - 2
    /\ totals.subtotal = 494 * Percent * Percent
    /\ ~ENABLED handleSubmit
(***************************************************************************)
(* Properties of a save that fails.                                        *)
(***************************************************************************)
IsInvoiceRequest(r) == r.op \in {"update_invoice", "create_invoice"}

\* C25: a save sends the request for the invoice first and an item request
\* only when that request has been answered; when a request of the save is
\* answered with a failure the save returns, no request of it stays
\* outstanding, and only a save that has not returned has requests
\* outstanding: after the failure it sends nothing more.
C25_SaveStopsAtFirstFailure ==
    /\ [](\A c \in Saves :
            /\ IsInvoiceRequest(calls[c].sent[1])
            /\ \A i \in 2..Len(calls[c].sent) : IsItemRequest(calls[c].sent[i])
            /\ calls[c].pc = "invoice" => Len(calls[c].sent) = 1
            /\ \A m \in Outstanding(c) : m.req = calls[c].sent[Len(calls[c].sent)])
    /\ [](\A m \in net : m.call \in Running)
    /\ [][\A m \in net :
            RespondError(m) => /\ m.call \notin DOMAIN calls'
                               /\ \A n \in net' : n.call # m.call]_vars

\* A save has failed after the server created an item for it: it has
\* returned from its catch block and no request is outstanding, while the
\* form still holds what was to be saved.
C25_Witness ==
    /\ started = 1
    /\ Running = {}
    /\ net = {}
    /\ created # EmptyBag
    /\ "Failed to save invoice:" \in console
    /\ showModal
    /\ Len(syncPlan(editingInvoice, normalizeItems(form.items))) >= 3
\* What a save works on and gives up when it succeeds.
session == <<showModal, editingInvoice, form, totals, invoices, fetches>>

\* C26: a save whose request is answered with a failure leaves the modal, the
\* invoice being edited, the form and the list as they are and starts no
\* fetch; the modal is closed, the invoice being edited cleared, the form
\* reset and the list fetched again only all together, in the step in which
\* the last request of a save is answered with success.
C26_FailedSaveLeavesSession ==
    /\ [][\A m \in net :
            m.call \in Saves /\ RespondError(m) => UNCHANGED session]_vars
    /\ [][fetches' > fetches \/ (showModal /\ ~showModal')
            => /\ \E m \in net :
                    /\ m.call \in Saves /\ RespondOk(m)
                    /\ Outstanding(m.call) = {m}
                    /\ calls[m.call].kind = "edit" => AllSent(calls[m.call])
               /\ ~showModal' /\ editingInvoice' = NoInvoice /\ form' = getDefaultForm
               /\ fetches' = fetches + 1]_vars

\* A save of an edited form has failed: the modal is still open on the
\* invoice with the edits in the form, and no fetch has been started.
C26_Witness ==
    /\ started = 1 /\ Running = {}
    /\ "Failed to save invoice:" \in console
    /\ showModal /\ editingInvoice # NoInvoice
    /\ form.items # handleEditForm(editingInvoice).items
    /\ fetches = 0
(***************************************************************************)
(* Properties of opening an invoice and saving it.                         *)
(***************************************************************************)
\* The calendar day of a timestamp in UTC, and in the time zone of the browser.
UtcDay(timestamp) == Slice10(timestamp.v)
LocalDay(timestamp) == Slice10(toISOString(NewDate(timestamp.v) + timeZone))

SameDay(a, b) == UtcDay(a) = UtcDay(b) \/ LocalDay(a) = LocalDay(b)

\* The form holds the dates handleEdit put there.
DatesUntouched ==
    /\ editingInvoice # NoInvoice
    /\ form.issue_date = handleEditForm(editingInvoice).issue_date
    /\ form.due_date = handleEditForm(editingInvoice).due_date

\* C27: a save of an invoice whose dates were left as handleEdit showed them
\* sends an issue date and a due date on the calendar days of the stored ones,
\* by the calendar of UTC or by that of the browser, in every time zone.
C27_UntouchedDatesKeepTheirDay ==
    [][\A c \in DOMAIN calls' \ Running :
        calls'[c].kind = "edit" /\ DatesUntouched
            => /\ SameDay(calls'[c].sent[1].body[1], editingInvoice.issue_date)
               /\ SameDay(calls'[c].sent[1].body[2], editingInvoice.due_date)]_vars
(***************************************************************************)
(* Properties of the dates of the form.                                    *)
(***************************************************************************)
\* C29: whenever the terms of the form are not custom and its issue date is
\* set, its due date is the calendar date the offset of the terms after the
\* issue date, whatever has been done to the form.
C29_DueDateFollowsTerms ==
    form.payment_terms # "custom" /\ form.issue_date # Str(<<>>)
        => form.due_date =
            Str(DateString(ParseDay(form.issue_date.v) + TermsOffset(form.payment_terms)))
(***************************************************************************)
(* Properties of fetching the list again.                                  *)
(***************************************************************************)
\* C28: when no GET /invoices is outstanding and the one started last was
\* answered with a list, that list is the list shown.
C28_ListIsLatestResponse ==
    fetches = 0 /\ latest.ok => invoices = latest.data
(***************************************************************************)
(* Properties of the auth context.                                         *)
(***************************************************************************)
\* C30: whenever no request of the auth context is outstanding, a token is
\* stored in localStorage if and only if there is a user.
C30_TokenIffUser ==
    auth.requests = {} => (auth.token # "" <=> auth.user # "")
====
